---- MODULE Spec2Model ----
(***************************************************************************)
(* Model of reorder_elf.py: the program header table of a 32-bit           *)
(* little-endian ELF file is removed from its place, the LOAD segments are *)
(* merged into [storage, code], the new table is appended to the end of    *)
(* the file and the absolute file offsets are patched.                     *)
(*                                                                         *)
(* The file is a sequence of bytes (0..255).  Python's unbounded integers  *)
(* and the unsigned 32-bit fields are kept exact: a number n is the record *)
(* [hi, lo] with n = hi * 65536 + lo and lo in 0..65535 (hi is negative    *)
(* for a negative n), so that 0xFFFFFFFF and the range check of            *)
(* struct.pack are the program's own.                                      *)
(***************************************************************************)
EXTENDS Integers, Sequences, FiniteSets, TLC

\* ------------------------------------------------------------- bounds
MaxPhnum == 3
MaxShnum == 2
DataLen == 8
ShEntSize == 40

\* ------------------------------------------------ program constants
PT_LOAD == 1
e_phoff_offset == 28
e_shoff_offset == 32
e_phentsize_offset == 42
e_phnum_offset == 44
e_shentsize_offset == 46
e_shnum_offset == 48
p_offset_in_ph == 4
sh_offset_in_sh == 16
MergedAlign == 4
PhEntryBytes == 32
EhdrBytes == 52

\* ------------------------------------------------------------ numbers
Num(i) == [hi |-> i \div 65536, lo |-> i % 65536]

Plus(a, b) ==
    LET s == a.lo + b.lo
    IN  [hi |-> a.hi + b.hi + (s \div 65536), lo |-> s % 65536]

Minus(a, b) ==
    LET d == a.lo - b.lo
    IN  [hi |-> a.hi - b.hi - (IF d < 0 THEN 1 ELSE 0), lo |-> (d + 65536) % 65536]

Less(a, b) == a.hi < b.hi \/ (a.hi = b.hi /\ a.lo < b.lo)

NumMin(a, b) == IF Less(b, a) THEN b ELSE a

NumMax(a, b) == IF Less(a, b) THEN b ELSE a

\* 0xFFFFFFFF
U32Max == [hi |-> 65535, lo |-> 65535]

\* the values struct.pack('<I') accepts
InU32(v) == v.hi >= 0 /\ v.hi < 65536

RECURSIVE Or16(_, _)
Or16(a, b) ==
    IF a = 0 THEN b
    ELSE IF b = 0 THEN a
    ELSE (IF a % 2 = 1 \/ b % 2 = 1 THEN 1 ELSE 0) + 2 * Or16(a \div 2, b \div 2)

BitOr(a, b) == [hi |-> Or16(a.hi, b.hi), lo |-> Or16(a.lo, b.lo)]

\* a Python slice bound: an index past the end is the end
AsIndex(v, n) == IF v.hi > 0 \/ v.lo > n THEN n ELSE v.lo

\* ------------------------------------------------------------- bytes
\* data[a:b]
Slice(s, a, b) ==
    LET hiB == IF b > Len(s) THEN Len(s) ELSE b
    IN  IF a >= hiB THEN <<>> ELSE SubSeq(s, a + 1, hiB)

\* struct.pack('<I', v)
Pack32(v) == <<v.lo % 256, v.lo \div 256, v.hi % 256, v.hi \div 256>>

\* struct.pack('<H', v)
Pack16(v) == <<v % 256, v \div 256>>

\* struct.unpack('<I', b)[0] of a 4-byte slice
Unpack32(b) == [hi |-> b[3] + 256 * b[4], lo |-> b[1] + 256 * b[2]]

\* struct.unpack('<H', b)[0] of a 2-byte slice
Unpack16(b) == b[1] + 256 * b[2]

\* struct.unpack needs the whole field: a short slice raises struct.error
CanRead(buf, off, n) == off >= 0 /\ off + n <= Len(buf)

Read32(buf, off) == Unpack32(Slice(buf, off, off + 4))

Read16(buf, off) == Unpack16(Slice(buf, off, off + 2))

\* struct.pack_into(fmt, buf, off, v): the bytes at off are overwritten
Overwrite(buf, off, bytes) ==
    [k \in 1..Len(buf) |->
        IF k > off /\ k <= off + Len(bytes) THEN bytes[k - off] ELSE buf[k]]

PackInto32(buf, off, v) == Overwrite(buf, off, Pack32(v))

PackInto16(buf, off, v) == Overwrite(buf, off, Pack16(v))

\* ------------------------------------------- merge_load_segments
Fields == <<"type", "offset", "vaddr", "paddr", "filesz", "memsz", "flags", "align">>

\* the slice of entry i: ph_data[i * e_phentsize : i * e_phentsize + e_phentsize]
PhSlice(ph_data, sz, i) == Slice(ph_data, i * sz, i * sz + sz)

\* the eight struct.unpack calls of one entry raise on a slice shorter than 32 bytes
ParseOk(ph_data, sz, n) ==
    \A i \in 0..(n - 1) : Len(PhSlice(ph_data, sz, i)) >= PhEntryBytes

ParseSegment(ph) ==
    [f \in {Fields[k] : k \in 1..8} |->
        LET k == CHOOSE j \in 1..8 : Fields[j] = f
        IN  Read32(ph, 4 * (k - 1))]

Segments(ph_data, sz, n) == [i \in 1..n |-> ParseSegment(PhSlice(ph_data, sz, i - 1))]

\* mutant: the type of the entry is not looked at
IsStorage_AnyType(seg) == seg.vaddr = Num(0)

IsStorage(seg) == seg.type = Num(PT_LOAD) /\ seg.vaddr = Num(0)

IsCode(seg) == seg.type = Num(PT_LOAD) /\ seg.vaddr # Num(0)

\* the loop keeps the last LOAD entry with vaddr 0
HasStorage(segs) == \E i \in 1..Len(segs) : IsStorage(segs[i])

StorageSeg(segs) ==
    segs[CHOOSE i \in 1..Len(segs) :
            IsStorage(segs[i]) /\ \A j \in (i + 1)..Len(segs) : ~IsStorage(segs[j])]

CodeSegs(segs) == SelectSeq(segs, IsCode)

RECURSIVE MinOver(_, _), MaxEnd(_, _, _), OrFlags(_)
\* min(seg[f] for seg in code_segs)
MinOver(cs, f) ==
    IF Len(cs) = 1 THEN cs[1][f] ELSE NumMin(cs[1][f], MinOver(Tail(cs), f))

\* max(seg[f] + seg[g] for seg in code_segs)
MaxEnd(cs, f, g) ==
    IF Len(cs) = 1 THEN Plus(cs[1][f], cs[1][g])
    ELSE NumMax(Plus(cs[1][f], cs[1][g]), MaxEnd(Tail(cs), f, g))

\* merged_flags |= seg['flags']
OrFlags(cs) == IF cs = <<>> THEN Num(0) ELSE BitOr(cs[1].flags, OrFlags(Tail(cs)))

MergedOffset(cs) == MinOver(cs, "offset")

MergedVaddr(cs) == MinOver(cs, "vaddr")

MergedPaddr(cs) == MinOver(cs, "vaddr")

\* mutant: the first code entry's offset is taken for the least one
MergedFilesz_FromFirst(cs) == Minus(MaxEnd(cs, "offset", "filesz"), cs[1].offset)

MergedFilesz(cs) == Minus(MaxEnd(cs, "offset", "filesz"), MinOver(cs, "offset"))

MergedMemsz(cs) == Minus(MaxEnd(cs, "vaddr", "memsz"), MinOver(cs, "vaddr"))

\* the dictionary built when len(code_segs) > 1
MergeMany(cs) ==
    [type   |-> Num(PT_LOAD),
     offset |-> MergedOffset(cs),
     vaddr  |-> MergedVaddr(cs),
     paddr  |-> MergedPaddr(cs),
     filesz |-> MergedFilesz(cs),
     memsz  |-> MergedMemsz(cs),
     flags  |-> OrFlags(cs),
     align  |-> Num(MergedAlign)]

\* mutant: a single code entry is rebuilt like several
MergedCodeSeg_Always(cs) == MergeMany(cs)

MergedCodeSeg(cs) == IF Len(cs) > 1 THEN MergeMany(cs) ELSE cs[1]

\* mutant: the code entry is put first
NewSegments_CodeFirst(segs) == <<MergedCodeSeg(CodeSegs(segs)), StorageSeg(segs)>>

NewSegments(segs) == <<StorageSeg(segs), MergedCodeSeg(CodeSegs(segs))>>

\* struct.pack('<IIIIIIII', ...) accepts only values of 32 bits
PackOk(seg) == \A k \in 1..8 : InU32(seg[Fields[k]])

PackSegment(seg) ==
    Pack32(seg.type) \o Pack32(seg.offset) \o Pack32(seg.vaddr) \o Pack32(seg.paddr)
        \o Pack32(seg.filesz) \o Pack32(seg.memsz) \o Pack32(seg.flags) \o Pack32(seg.align)

RECURSIVE PackSegments(_)
PackSegments(ss) == IF ss = <<>> THEN <<>> ELSE PackSegment(ss[1]) \o PackSegments(Tail(ss))

\* the result of merge_load_segments: the table to append, its count, and how
\* the call ended ("merged", a warning, or an exception raised in it)
merge_load_segments(ph_data, e_phentsize, e_phnum) ==
    IF ~ParseOk(ph_data, e_phentsize, e_phnum)
    THEN [how |-> "exception", ph |-> <<>>, phnum |-> 0]
    ELSE LET segs == Segments(ph_data, e_phentsize, e_phnum)
         IN  IF ~HasStorage(segs)
             THEN [how |-> "no_storage", ph |-> ph_data, phnum |-> e_phnum]
             ELSE IF Len(CodeSegs(segs)) = 0
             THEN [how |-> "no_code", ph |-> ph_data, phnum |-> e_phnum]
             ELSE IF \E k \in 1..2 : ~PackOk(NewSegments(segs)[k])
             THEN [how |-> "exception", ph |-> <<>>, phnum |-> 0]
             ELSE [how |-> "merged",
                   ph |-> PackSegments(NewSegments(segs)),
                   phnum |-> Len(NewSegments(segs))]

\* --------------------------------------------------- offset patching
\* ph_size = e_phentsize * e_phnum
PhSize(phentsize, phnum) == phentsize * phnum

\* ph_data = data[e_phoff:e_phoff + ph_size]
PhData(data, phoff, ph_size) ==
    Slice(data, AsIndex(phoff, Len(data)), AsIndex(Plus(phoff, Num(ph_size)), Len(data)))

\* mutant: room for two entries is left where the table was
RemoveTable_KeepsTwo(data, phoff, ph_size) ==
    Slice(data, 0, AsIndex(phoff, Len(data)))
        \o Slice(data, AsIndex(Plus(phoff, Num(ph_size - 2 * PhEntryBytes)), Len(data)),
                 Len(data))

\* data_without_ph = data[:e_phoff] + data[e_phoff + ph_size:]
RemoveTable(data, phoff, ph_size) ==
    Slice(data, 0, AsIndex(phoff, Len(data)))
        \o Slice(data, AsIndex(Plus(phoff, Num(ph_size)), Len(data)), Len(data))

\* new_phoff = len(data_without_ph)
NewPhoff(removed) == Len(removed)

\* mutant: >= for >
ShoffMoves_OrEqual(shoff, phoff) == ~Less(shoff, phoff)

\* if e_shoff > e_phoff: new_shoff = e_shoff - ph_size
ShoffMoves(shoff, phoff) == Less(phoff, shoff)

NewShoff(shoff, phoff, ph_size) ==
    IF ShoffMoves(shoff, phoff) THEN Minus(shoff, Num(ph_size)) ELSE shoff

\* mutant: the entries' offsets are left as merged
NewPOffset_Unpatched(p_offset, phoff, ph_size) == p_offset

\* if p_offset > e_phoff: new_p_offset = p_offset - ph_size
NewPOffset(p_offset, phoff, ph_size) ==
    IF Less(phoff, p_offset) THEN Minus(p_offset, Num(ph_size)) ELSE p_offset

\* if sh_data_offset > e_phoff and sh_data_offset < 0xFFFFFFFF:
\*     new_sh_data_offset = sh_data_offset - ph_size
NewShDataOffset(sh_data_offset, phoff, ph_size) ==
    IF Less(phoff, sh_data_offset) /\ Less(sh_data_offset, U32Max)
    THEN Minus(sh_data_offset, Num(ph_size))
    ELSE sh_data_offset

\* a field at a byte offset that is itself a number of the program
CanReadAt(buf, off) == off.hi = 0 /\ CanRead(buf, off.lo, 4)

\* ph_offset = new_phoff + (i * e_phentsize), the place of entry i's p_offset
PhEntryOffset(new_phoff, phentsize, i) == new_phoff + (i * phentsize) + p_offset_in_ph

\* the loop over range(new_phnum), from entry i on; ok is FALSE when a
\* struct call raises
RECURSIVE PatchSegments(_, _, _, _, _, _, _)
PatchSegments(buf, i, n, new_phoff, phentsize, phoff, ph_size) ==
    IF i >= n THEN [ok |-> TRUE, buf |-> buf]
    ELSE LET at == PhEntryOffset(new_phoff, phentsize, i)
         IN  IF ~CanRead(buf, at, 4) THEN [ok |-> FALSE, buf |-> buf]
             ELSE LET v == NewPOffset(Read32(buf, at), phoff, ph_size)
                  IN  IF ~InU32(v) THEN [ok |-> FALSE, buf |-> buf]
                      ELSE PatchSegments(PackInto32(buf, at, v), i + 1, n,
                                         new_phoff, phentsize, phoff, ph_size)

\* sh_entry_offset = sh_offset + (i * e_shentsize), the place of entry i's sh_offset
ShEntryOffset(sh_offset, shentsize, i) == Plus(sh_offset, Num((i * shentsize) + sh_offset_in_sh))

\* the loop over range(e_shnum), from entry i on
RECURSIVE PatchSections(_, _, _, _, _, _, _)
PatchSections(buf, i, n, sh_offset, shentsize, phoff, ph_size) ==
    IF i >= n THEN [ok |-> TRUE, buf |-> buf]
    ELSE LET at == ShEntryOffset(sh_offset, shentsize, i)
         IN  IF ~CanReadAt(buf, at) THEN [ok |-> FALSE, buf |-> buf]
             ELSE LET v == NewShDataOffset(Read32(buf, at.lo), phoff, ph_size)
                  IN  IF ~InU32(v) THEN [ok |-> FALSE, buf |-> buf]
                      ELSE PatchSections(PackInto32(buf, at.lo, v), i + 1, n,
                                         sh_offset, shentsize, phoff, ph_size)

\* the section loop runs only under `if e_shoff > e_phoff`
SectionsPatched(shoff, phoff) == Less(phoff, shoff)

\* ------------------------------------------------------ input files
ElfMagic == <<127, 69, 76, 70>>

Fill(n, b) == [k \in 1..n |-> b]

\* the ELF header fields the program reads, at their byte offsets
ElfHeader(magic, class, endian, phoff, shoff, phentsize, phnum, shentsize, shnum) ==
    LET h0 == Overwrite(Fill(EhdrBytes, 0), 0, magic \o <<class, endian, 1>>)
        h1 == PackInto32(h0, e_phoff_offset, Num(phoff))
        h2 == PackInto32(h1, e_shoff_offset, Num(shoff))
        h3 == PackInto16(h2, e_phentsize_offset, phentsize)
        h4 == PackInto16(h3, e_phnum_offset, phnum)
        h5 == PackInto16(h4, e_shentsize_offset, shentsize)
    IN  PackInto16(h5, e_shnum_offset, shnum)

Seg(type, offset, vaddr, paddr, filesz, memsz, flags, align) ==
    [type |-> Num(type), offset |-> Num(offset), vaddr |-> Num(vaddr),
     paddr |-> Num(paddr), filesz |-> Num(filesz), memsz |-> Num(memsz),
     flags |-> Num(flags), align |-> Num(align)]

\* the program header entries input files are made of; d1 and d2 are the
\* offsets of the two data blocks of the file, phoff that of the table:
\*   1 storage (LOAD, vaddr 0)      2..4 code (LOAD, vaddr # 0)
\*   5 NOTE with vaddr 0            6 DYNAMIC with vaddr # 0
SegCatalog(d1, d2, phoff) ==
    << Seg(1, d1, 0, 0, 4, 4, 4, 4),
       Seg(1, d2, 4096, 8192, DataLen, DataLen + 8, 5, 4096),
       Seg(1, d2 + 4, 4608, 4608, 2, 32, 6, 8),
       Seg(1, d1 + 4, 2048, 2048, 4, 4, 1, 4),
       Seg(4, phoff, 0, 0, 4, 4, 4, 4),
       Seg(2, 0, 12288, 12288, 4, 65536, 8, 4) >>

\* the data offsets section headers are given: past the table, the no-data
\* value, the table's own offset, the first data block, inside the table
ShCatalog(d1, d2, phoff) ==
    << Num(d2), U32Max, Num(phoff), Num(d1), Num(phoff + 4) >>

RECURSIVE PhTable(_, _, _)
PhTable(cat, idx, phentsize) ==
    IF idx = <<>> THEN <<>>
    ELSE PackSegment(cat[idx[1]]) \o Fill(phentsize - PhEntryBytes, 238)
            \o PhTable(cat, Tail(idx), phentsize)

ShEntry(off) == PackInto32(Fill(ShEntSize, 0), sh_offset_in_sh, off)

RECURSIVE ShTable(_, _, _)
ShTable(cat, first, n) ==
    IF n = 0 THEN <<>>
    ELSE ShEntry(cat[first]) \o ShTable(cat, (first % Len(cat)) + 1, n - 1)

Layouts == {"ph_first", "ph_mid", "sh_first"}

\* ph_first: header, PH table, data 1, data 2, SH table
\* ph_mid:   header, data 1, PH table, data 2, SH table
\* sh_first: header, data 1, SH table, PH table, data 2
BuildElf(magic, class, endian, phentsize, idx, layout, first, shnum) ==
    LET T == phentsize * Len(idx)
        S == ShEntSize * shnum
        phoff == CASE layout = "ph_first" -> EhdrBytes
                   [] layout = "ph_mid"   -> EhdrBytes + DataLen
                   [] layout = "sh_first" -> EhdrBytes + DataLen + S
        d1 == IF layout = "ph_first" THEN EhdrBytes + T ELSE EhdrBytes
        d2 == IF layout = "ph_first" THEN d1 + DataLen ELSE phoff + T
        shoff == IF layout = "sh_first" THEN EhdrBytes + DataLen ELSE d2 + DataLen
        hdr == ElfHeader(magic, class, endian, phoff, shoff, phentsize, Len(idx),
                         ShEntSize, shnum)
        ph == PhTable(SegCatalog(d1, d2, phoff), idx, phentsize)
        sh == ShTable(ShCatalog(d1, d2, phoff), first, shnum)
        b1 == Fill(DataLen, 209)
        b2 == Fill(DataLen, 210)
    IN  CASE layout = "ph_first" -> hdr \o ph \o b1 \o b2 \o sh
          [] layout = "ph_mid"   -> hdr \o b1 \o ph \o b2 \o sh
          [] layout = "sh_first" -> hdr \o b1 \o sh \o ph \o b2

\* program header tables: entries of the catalog in rising or falling order
IndexSeqs ==
    {s \in UNION {[1..n -> 1..6] : n \in 0..MaxPhnum} :
        \/ \A i \in 1..(Len(s) - 1) : s[i] < s[i + 1]
        \/ \A i \in 1..(Len(s) - 1) : s[i] > s[i + 1]}

\* files with a sound header: every table, layout and section list with
\* entries of 32 bytes, and with entries of 40 bytes at most one section
BodyFiles ==
    {BuildElf(ElfMagic, 1, 1, PhEntryBytes, idx, lay, first, n) :
        idx \in IndexSeqs, lay \in Layouts, first \in 1..5, n \in 1..MaxShnum}
    \cup
    {BuildElf(ElfMagic, 1, 1, PhEntryBytes, idx, lay, 1, 0) :
        idx \in IndexSeqs, lay \in Layouts}
    \cup
    {BuildElf(ElfMagic, 1, 1, PhEntryBytes + 8, idx, lay, 1, n) :
        idx \in IndexSeqs, lay \in Layouts, n \in 0..1}

\* files whose identification bytes are wrong in one or more places
HeaderFiles ==
    {BuildElf(magic, class, endian, PhEntryBytes, <<1, 2, 3>>, "ph_first", 1, 1) :
        magic \in {ElfMagic, <<127, 69, 76, 71>>}, class \in {1, 2}, endian \in {1, 2}}

InputFiles == BodyFiles \cup HeaderFiles

\* ------------------------------------------------------------- state
VARIABLES
    orig,             \* the file the first run was given
    run,              \* 1: the run on orig; 2: the run on the first run's output
    input,            \* data, the bytes read from input_file
    pc,               \* the position in reorder_elf
    diag,             \* the last Error/Warning message printed
    result,           \* what reorder_elf returned: "none" before it ends
    e_phoff, e_shoff, e_phentsize, e_phnum, e_shentsize, e_shnum,
    merged,           \* what merge_load_segments returned
    new_phoff,
    data_without_ph,
    output,           \* the bytes of output_file
    written           \* whether output_file was written

vars == <<orig, run, input, pc, diag, result, e_phoff, e_shoff, e_phentsize,
          e_phnum, e_shentsize, e_shnum, merged, new_phoff, data_without_ph,
          output, written>>

hdrVars == <<e_phoff, e_shoff, e_phentsize, e_phnum, e_shentsize, e_shnum>>

NoMerge == [how |-> "none", ph |-> <<>>, phnum |-> 0]

Init ==
    /\ orig \in InputFiles
    /\ input = orig
    /\ run = 1
    /\ pc = "start"
    /\ diag = "none"
    /\ result = "none"
    /\ e_phoff = Num(0) /\ e_shoff = Num(0)
    /\ e_phentsize = 0 /\ e_phnum = 0 /\ e_shentsize = 0 /\ e_shnum = 0
    /\ merged = NoMerge
    /\ new_phoff = 0
    /\ data_without_ph = <<>>
    /\ output = <<>>
    /\ written = FALSE

\* `return False` after an Error message
Fail(msg) ==
    /\ pc' = "failed"
    /\ diag' = msg
    /\ result' = "False"

\* an exception leaves reorder_elf
Raise ==
    /\ pc' = "crashed"
    /\ result' = "exception"

\* mutant: the endianness byte is checked before the class byte
HeaderVerdict_EndianFirst(data) ==
    IF Slice(data, 0, 4) # ElfMagic THEN "Not an ELF file"
    ELSE IF Len(data) < 6 THEN "exception"
    ELSE IF data[6] # 1 THEN "Only little-endian supported"
    ELSE IF data[5] # 1 THEN "Only 32-bit ELF supported"
    ELSE IF ~CanRead(data, e_shnum_offset, 2) THEN "exception"
    ELSE "ok"

\* which check of the header fails first, "ok" when none does
HeaderVerdict(data) ==
    IF Slice(data, 0, 4) # ElfMagic THEN "Not an ELF file"
    ELSE IF Len(data) < 6 THEN "exception"
    ELSE IF data[5] # 1 THEN "Only 32-bit ELF supported"
    ELSE IF data[6] # 1 THEN "Only little-endian supported"
    ELSE IF ~CanRead(data, e_shnum_offset, 2) THEN "exception"
    ELSE "ok"

\* lines 121-155: read the file, validate e_ident, read the header fields
ReadHeader ==
    /\ pc = "start"
    /\ LET v == HeaderVerdict(input)
       IN  IF v = "ok"
           THEN /\ pc' = "header_read"
                /\ e_phoff' = Read32(input, e_phoff_offset)
                /\ e_shoff' = Read32(input, e_shoff_offset)
                /\ e_phentsize' = Read16(input, e_phentsize_offset)
                /\ e_phnum' = Read16(input, e_phnum_offset)
                /\ e_shentsize' = Read16(input, e_shentsize_offset)
                /\ e_shnum' = Read16(input, e_shnum_offset)
                /\ UNCHANGED <<diag, result>>
           ELSE IF v = "exception"
           THEN Raise /\ UNCHANGED <<diag, hdrVars>>
           ELSE Fail(v) /\ UNCHANGED hdrVars
    /\ UNCHANGED <<orig, run, input, merged, new_phoff, data_without_ph, output, written>>

ph_size == PhSize(e_phentsize, e_phnum)

\* what merge_load_segments prints before it returns the table unchanged
MergeMessage(how) ==
    CASE how = "no_storage" -> "No StorageInfo segment found"
      [] how = "no_code"    -> "No code segments found"
      [] OTHER              -> diag

\* lines 163-171: extract the table and merge the LOAD segments
MergeSegments ==
    /\ pc = "header_read"
    /\ LET m == merge_load_segments(PhData(input, e_phoff, ph_size), e_phentsize, e_phnum)
       IN  IF m.how = "exception"
           THEN Raise /\ UNCHANGED <<merged, diag>>
           ELSE /\ merged' = m
                /\ diag' = MergeMessage(m.how)
                /\ pc' = "merged"
                /\ UNCHANGED result
    /\ UNCHANGED <<orig, run, input, hdrVars, new_phoff, data_without_ph, output, written>>

\* lines 173-182: remove the old table, append the new one, patch e_phoff, e_phnum
RelocateTable ==
    /\ pc = "merged"
    /\ LET removed == RemoveTable(input, e_phoff, ph_size)
           buf == removed \o merged.ph
       IN  IF CanRead(buf, e_phoff_offset, 4) /\ CanRead(buf, e_phnum_offset, 2)
           THEN /\ new_phoff' = NewPhoff(removed)
                /\ data_without_ph' =
                      PackInto16(PackInto32(buf, e_phoff_offset, Num(NewPhoff(removed))),
                                 e_phnum_offset, merged.phnum)
                /\ pc' = "relocated"
                /\ UNCHANGED result
           ELSE Raise /\ UNCHANGED <<new_phoff, data_without_ph>>
    /\ UNCHANGED <<orig, run, input, diag, hdrVars, merged, output, written>>

new_shoff == NewShoff(e_shoff, e_phoff, ph_size)

\* lines 184-188: patch e_shoff
PatchShoff ==
    /\ pc = "relocated"
    /\ IF ~ShoffMoves(e_shoff, e_phoff)
       THEN pc' = "shoff_done" /\ UNCHANGED <<data_without_ph, result>>
       ELSE IF InU32(new_shoff)
       THEN /\ data_without_ph' = PackInto32(data_without_ph, e_shoff_offset, new_shoff)
            /\ pc' = "shoff_done"
            /\ UNCHANGED result
       ELSE Raise /\ UNCHANGED data_without_ph
    /\ UNCHANGED <<orig, run, input, diag, hdrVars, merged, new_phoff, output, written>>

\* lines 195-210: patch p_offset of the entries of the new table
PatchSegmentOffsets ==
    /\ pc = "shoff_done"
    /\ LET r == PatchSegments(data_without_ph, 0, merged.phnum, new_phoff,
                              e_phentsize, e_phoff, ph_size)
       IN  IF r.ok
           THEN data_without_ph' = r.buf /\ pc' = "segments_done" /\ UNCHANGED result
           ELSE Raise /\ UNCHANGED data_without_ph
    /\ UNCHANGED <<orig, run, input, diag, hdrVars, merged, new_phoff, output, written>>

\* lines 212-225: patch sh_offset of the section headers
PatchSectionOffsets ==
    /\ pc = "segments_done"
    /\ IF ~SectionsPatched(e_shoff, e_phoff)
       THEN pc' = "sections_done" /\ UNCHANGED <<data_without_ph, result>>
       ELSE LET r == PatchSections(data_without_ph, 0, e_shnum, new_shoff,
                                   e_shentsize, e_phoff, ph_size)
            IN  IF r.ok
                THEN data_without_ph' = r.buf /\ pc' = "sections_done" /\ UNCHANGED result
                ELSE Raise /\ UNCHANGED data_without_ph
    /\ UNCHANGED <<orig, run, input, diag, hdrVars, merged, new_phoff, output, written>>

\* lines 227-233: write the output file, return True
WriteOutput ==
    /\ pc = "sections_done"
    /\ output' = data_without_ph
    /\ written' = TRUE
    /\ result' = "True"
    /\ pc' = "done"
    /\ UNCHANGED <<orig, run, input, diag, hdrVars, merged, new_phoff, data_without_ph>>

\* the transform is applied to its own output
Rerun ==
    /\ pc = "done"
    /\ run = 1
    /\ run' = 2
    /\ input' = output
    /\ pc' = "start"
    /\ diag' = "none"
    /\ result' = "none"
    /\ e_phoff' = Num(0) /\ e_shoff' = Num(0)
    /\ e_phentsize' = 0 /\ e_phnum' = 0 /\ e_shentsize' = 0 /\ e_shnum' = 0
    /\ merged' = NoMerge
    /\ new_phoff' = 0
    /\ data_without_ph' = <<>>
    /\ output' = <<>>
    /\ written' = FALSE
    /\ UNCHANGED orig

Next ==
    \/ ReadHeader
    \/ MergeSegments
    \/ RelocateTable
    \/ PatchShoff
    \/ PatchSegmentOffsets
    \/ PatchSectionOffsets
    \/ WriteOutput
    \/ Rerun

Spec == Init /\ [][Next]_vars

\* ------------------------------------------- the files, as a reader sees them
\* one program header entry of 8 little-endian words at byte offset off
EntryAt(buf, off) ==
    [type   |-> Read32(buf, off),      offset |-> Read32(buf, off + 4),
     vaddr  |-> Read32(buf, off + 8),  paddr  |-> Read32(buf, off + 12),
     filesz |-> Read32(buf, off + 16), memsz  |-> Read32(buf, off + 20),
     flags  |-> Read32(buf, off + 24), align  |-> Read32(buf, off + 28)]

InPhoff == Read32(orig, 28)
InShoff == Read32(orig, 32)
InPhentsize == Read16(orig, 42)
InPhnum == Read16(orig, 44)
InShentsize == Read16(orig, 46)
InShnum == Read16(orig, 48)
OldTableSize == InPhentsize * InPhnum

InEntry(i) == EntryAt(orig, InPhoff.lo + i * InPhentsize)
InStorage == {i \in 0..(InPhnum - 1) : InEntry(i).type = Num(1) /\ InEntry(i).vaddr = Num(0)}
InCode == {i \in 0..(InPhnum - 1) : InEntry(i).type = Num(1) /\ InEntry(i).vaddr # Num(0)}
InCodeEntries == {InEntry(i) : i \in InCode}

HeaderSound == SubSeq(orig, 1, 4) = <<127, 69, 76, 70>> /\ orig[5] = 1 /\ orig[6] = 1
Classified == Cardinality(InStorage) = 1 /\ InCode # {}
ValidInput == HeaderSound /\ Classified
Elf32Entries == InPhentsize = 32

FirstRunDone == run = 1 /\ pc = "done"
SecondRunDone == run = 2 /\ pc = "done"
AfterMerge == pc \in {"merged", "relocated", "shoff_done", "segments_done", "sections_done", "done"}

OutPhoff == Read32(output, 28)
OutShoff == Read32(output, 32)
OutPhnum == Read16(output, 44)
OutEntry(k) == EntryAt(output, OutPhoff.lo + 32 * k)
MergedEntry(k) == EntryAt(merged.ph, 32 * k)

LeastOf(S) == CHOOSE x \in S : \A y \in S : ~Less(y, x)
GreatestOf(S) == CHOOSE x \in S : \A y \in S : ~Less(x, y)
Moved(v) == IF Less(InPhoff, v) THEN Minus(v, Num(OldTableSize)) ELSE v
WithoutOffset(e) == [e EXCEPT !.offset = Num(0)]

C2_TwoEntriesStorageFirst ==
    (FirstRunDone /\ ValidInput /\ Elf32Entries) =>
        /\ OutPhnum = 2
        /\ Len(output) = OutPhoff.lo + 2 * 32
        /\ \E i \in InStorage : WithoutOffset(OutEntry(0)) = WithoutOffset(InEntry(i))
        /\ OutEntry(1).type = Num(1)
        /\ OutEntry(1).vaddr = LeastOf({e.vaddr : e \in InCodeEntries})
        /\ OutEntry(1).vaddr # Num(0)
        /\ \A k \in 0..(OutPhnum - 1) : OutEntry(k).type = Num(1)

C2_Witness ==
    /\ FirstRunDone /\ ValidInput /\ Elf32Entries
    /\ InPhnum = 3 /\ Cardinality(InCode) = 1
    /\ InStorage = {2}
    /\ \E i \in 0..(InPhnum - 1) : InEntry(i).type # Num(1)

\* ---------------------------------------------------------------- C3
\* C3 (as claimed): the phoff written into the output header equals
\* inputFileSize - (phnum_in - 2) * phentsize.
C3_PhoffAsClaimed ==
    (FirstRunDone /\ ValidInput) =>
        OutPhoff = Num(Len(orig) - (InPhnum - 2) * InPhentsize)

\* C3 (amended): the phoff written into the output header equals
\* inputFileSize - phnum_in * phentsize, the length of the buffer once the
\* whole old table is removed.
C3_PhoffIsInputMinusOldTable ==
    (FirstRunDone /\ ValidInput) =>
        OutPhoff = Num(Len(orig) - InPhnum * InPhentsize)

C3_Witness ==
    /\ FirstRunDone /\ ValidInput /\ InPhnum = 3 /\ InPhentsize = 32
    /\ OutPhoff = Num(Len(orig) - 96)

\* ---------------------------------------------------------------- C4
\* C4: for every valid input, whatever its phentsize and phnum, the output
\* size is the input size minus (oldPhnum - 2) * phentsize and the new table
\* is the last 2 * phentsize bytes of the output.
C4_SizeAsClaimed ==
    (FirstRunDone /\ ValidInput) =>
        /\ Len(output) = Len(orig) - (InPhnum - 2) * InPhentsize
        /\ OutPhoff = Num(Len(output) - 2 * InPhentsize)

C4_Elf32SizeHolds ==
    (FirstRunDone /\ ValidInput /\ Elf32Entries) =>
        /\ Len(output) = Len(orig) - (InPhnum - 2) * InPhentsize
        /\ OutPhoff = Num(Len(output) - 2 * InPhentsize)

\* ---------------------------------------------------------------- C5
\* C5: the merged code entry that merge_load_segments returns has
\* offset = min(offset), vaddr = min(vaddr),
\* filesz = max(offset + filesz) - min(offset) and
\* memsz = max(vaddr + memsz) - min(vaddr) over all code entries of the input.
C5_MergedIsUnionSpan ==
    (run = 1 /\ AfterMerge /\ merged.how = "merged") =>
        LET lowOff   == LeastOf({e.offset : e \in InCodeEntries})
            lowVaddr == LeastOf({e.vaddr : e \in InCodeEntries})
            endFile  == GreatestOf({Plus(e.offset, e.filesz) : e \in InCodeEntries})
            endMem   == GreatestOf({Plus(e.vaddr, e.memsz) : e \in InCodeEntries})
        IN  /\ MergedEntry(1).offset = lowOff
            /\ MergedEntry(1).vaddr = lowVaddr
            /\ Plus(MergedEntry(1).filesz, lowOff) = endFile
            /\ Plus(MergedEntry(1).memsz, lowVaddr) = endMem

\* two code entries, the second of which has the least offset, whose span
\* is the file size of neither
C5_Witness ==
    /\ run = 1 /\ pc = "merged" /\ merged.how = "merged"
    /\ InStorage = {0} /\ InCode = {1, 2}
    /\ Less(InEntry(2).offset, InEntry(1).offset)
    /\ MergedEntry(1).filesz # InEntry(1).filesz
    /\ MergedEntry(1).filesz # InEntry(2).filesz

\* ---------------------------------------------------------------- C6
Bit(n, k) == (n \div (2 ^ k)) % 2
IsOrOfFlags(v, S) ==
    \A k \in 0..15 :
        /\ Bit(v.lo, k) = 1 <=> \E e \in S : Bit(e.flags.lo, k) = 1
        /\ Bit(v.hi, k) = 1 <=> \E e \in S : Bit(e.flags.hi, k) = 1

\* C6 (as claimed): for every N >= 1 code entries the merged code entry
\* has paddr = vaddr = the least code vaddr, flags = the OR of all code
\* flags, and alignment 4.
C6_NormalisedForEveryN ==
    (run = 1 /\ AfterMerge /\ merged.how = "merged") =>
        /\ MergedEntry(1).paddr = MergedEntry(1).vaddr
        /\ MergedEntry(1).vaddr = LeastOf({e.vaddr : e \in InCodeEntries})
        /\ IsOrOfFlags(MergedEntry(1).flags, InCodeEntries)
        /\ MergedEntry(1).align = Num(4)

\* C6 (amended): for N >= 2 code entries the merged code entry has
\* paddr = vaddr = the least code vaddr, flags = the OR of all code flags
\* and alignment 4; for N = 1 the code entry is passed through unchanged,
\* with its own paddr and alignment.
C6_NormalisedOnlyWhenSeveral ==
    (run = 1 /\ AfterMerge /\ merged.how = "merged") =>
        /\ Cardinality(InCode) >= 2 =>
              /\ MergedEntry(1).paddr = MergedEntry(1).vaddr
              /\ MergedEntry(1).vaddr = LeastOf({e.vaddr : e \in InCodeEntries})
              /\ IsOrOfFlags(MergedEntry(1).flags, InCodeEntries)
              /\ MergedEntry(1).align = Num(4)
        /\ Cardinality(InCode) = 1 => \A i \in InCode : MergedEntry(1) = InEntry(i)

C6_Witness ==
    /\ run = 1 /\ pc = "merged" /\ merged.how = "merged"
    /\ Cardinality(InCode) = 1
    /\ MergedEntry(1).paddr # MergedEntry(1).vaddr
    /\ MergedEntry(1).align # Num(4)

C6_WitnessSeveral ==
    /\ run = 1 /\ pc = "merged" /\ merged.how = "merged"
    /\ Cardinality(InCode) = 2
    /\ \E i \in InCode : InEntry(i).paddr # InEntry(i).vaddr

\* ---------------------------------------------------------------- C7
InSectionOffset(i) == Read32(orig, InShoff.lo + i * InShentsize + 16)
OutSectionOffset(i) == Read32(output, OutShoff.lo + i * InShentsize + 16)

\* C7: for every valid input and every section header, wherever the
\* section header table lies: a data offset greater than the original phoff
\* and not 0xFFFFFFFF is, in the output, the original minus oldTableSize; a
\* data offset <= the original phoff is unchanged.
C7_SectionOffsetsAsClaimed ==
    (FirstRunDone /\ ValidInput) =>
        \A i \in 0..(InShnum - 1) :
            LET o == InSectionOffset(i)
            IN  /\ (Less(InPhoff, o) /\ o # U32Max) =>
                        OutSectionOffset(i) = Minus(o, Num(OldTableSize))
                /\ ~Less(InPhoff, o) => OutSectionOffset(i) = o

\* what the code does: the same, when the section header table lies past
\* the program header table
C7_HoldsWhenTableIsPast ==
    (FirstRunDone /\ ValidInput /\ Less(InPhoff, InShoff)) =>
        \A i \in 0..(InShnum - 1) :
            LET o == InSectionOffset(i)
            IN  /\ (Less(InPhoff, o) /\ o # U32Max) =>
                        OutSectionOffset(i) = Minus(o, Num(OldTableSize))
                /\ ~Less(InPhoff, o) => OutSectionOffset(i) = o
                /\ o = U32Max => OutSectionOffset(i) = o

\* ---------------------------------------------------------------- C8
\* C8: a second run, on the output of a successful first run on a valid
\* input of 32-byte entries, changes neither phnum (2) nor phoff, leaves the
\* table the last bytes of the file, and leaves shoff, every section data
\* offset and both segment file offsets as the first run wrote them.
C8_SecondRunIsFixedPoint ==
    (run = 2 /\ ValidInput /\ Elf32Entries) =>
        /\ pc \notin {"failed", "crashed"}
        /\ pc = "done" =>
              /\ OutPhnum = 2 /\ Read16(input, 44) = 2
              /\ OutPhoff = Read32(input, 28)
              /\ Len(output) = OutPhoff.lo + 2 * 32
              /\ OutShoff = Read32(input, 32)
              /\ \A i \in 0..(InShnum - 1) :
                    OutSectionOffset(i)
                        = Read32(input, Read32(input, 32).lo + i * InShentsize + 16)
              /\ \A k \in 0..1 :
                    OutEntry(k).offset
                        = EntryAt(input, Read32(input, 28).lo + 32 * k).offset

C8_Witness ==
    /\ SecondRunDone /\ ValidInput /\ Elf32Entries
    /\ InPhnum = 3 /\ InShnum = 2 /\ Cardinality(InCode) = 2
    /\ Len(input) < Len(orig)
    /\ output = input

\* ---------------------------------------------------------------- C9
FirstHeaderError ==
    IF SubSeq(orig, 1, 4) # <<127, 69, 76, 70>> THEN "Not an ELF file"
    ELSE IF orig[5] # 1 THEN "Only 32-bit ELF supported"
    ELSE "Only little-endian supported"

\* C9: an input with wrong magic bytes, or a class byte other than 1, or
\* an endianness byte other than 1, makes reorder_elf report failure with
\* the message of the first check that fails (magic, class, endianness in
\* that order), before any buffer edit, and the output file is never written.
C9_BadHeaderFailsBeforeEdits ==
    (run = 1 /\ ~HeaderSound) =>
        /\ pc \in {"start", "failed"}
        /\ ~written /\ output = <<>>
        /\ data_without_ph = <<>> /\ merged = NoMerge /\ input = orig
        /\ pc = "failed" => (result = "False" /\ diag = FirstHeaderError)

C9_Witness ==
    /\ pc = "failed" /\ result = "False"
    /\ SubSeq(orig, 1, 4) = <<127, 69, 76, 70>> /\ orig[5] # 1 /\ orig[6] # 1
    /\ diag = "Only 32-bit ELF supported"

\* --------------------------------------------------------------- C10
\* C10: in the output, shoff is the original shoff minus oldTableSize
\* when the original shoff > the original phoff and the original shoff
\* otherwise; phentsize is the input's; and, for a valid input of 32-byte
\* entries, the file offset of output entry 0 (storage) and of output entry
\* 1 (merged code: the least code offset) is that offset minus oldTableSize
\* when it is > the original phoff and that offset otherwise.
C10_HeaderLevelOffsetsPatched ==
    (FirstRunDone /\ HeaderSound) =>
        /\ OutShoff = (IF Less(InPhoff, InShoff)
                       THEN Minus(InShoff, Num(OldTableSize)) ELSE InShoff)
        /\ Read16(output, 42) = InPhentsize
        /\ (Classified /\ Elf32Entries) =>
              /\ \A i \in InStorage : OutEntry(0).offset = Moved(InEntry(i).offset)
              /\ OutEntry(1).offset = Moved(LeastOf({e.offset : e \in InCodeEntries}))

C10_Witness ==
    /\ FirstRunDone /\ ValidInput /\ Elf32Entries
    /\ Less(InPhoff, InShoff) /\ OutShoff # InShoff
    /\ OutEntry(0).offset = InEntry(0).offset
    /\ OutEntry(1).offset # LeastOf({e.offset : e \in InCodeEntries})

C10_WitnessShoffKept ==
    /\ FirstRunDone /\ ValidInput /\ ~Less(InPhoff, InShoff) /\ OutShoff = InShoff
    /\ InShnum > 0

====
